---- MODULE Spec2Model ----
(***************************************************************************)
(* A model of ebay-oauth: the token lifecycle manager EbayOAuthClient      *)
(* (src/ebay_oauth/auth.py) with its environment table (config.py), and    *)
(* the loopback callback listener (server.py).                             *)
(*                                                                         *)
(* Text is modelled as a sequence of Unicode code points, bytes as a       *)
(* sequence of numbers 0..255.  Time is counted in whole seconds.          *)
(***************************************************************************)
EXTENDS Integers, Sequences, FiniteSets, TLC

VARIABLES
    self,       \* the EbayOAuthClient instance (its attributes) or the failed construction
    now,        \* time.time(), in seconds
    last,       \* what the last call on the manager did and gave back (history)
    server,     \* the HTTPServer of start_callback_server with its callback_* attributes
    wait,       \* wait_for_callback: its position, deadline and outcome
    mono,       \* time.monotonic(), in seconds
    seen,       \* the requests the listener has been sent (history)
    keyring,    \* the keychain entry of KEYRING_SERVICE / KEYRING_ACCOUNT
    out,        \* what the last call on token_storage did and gave back (history)
    cli,        \* what the last ebay-oauth command did and how it exited (history)
    thr         \* the threads that call one manager: their positions and locals

vars == <<self, now, last, server, wait, mono, seen, keyring, out, cli, thr>>
mgrVars == <<self, now, last>>
srvVars == <<server, wait, mono, seen>>
stoVars == <<keyring, out>>

(***************************************************************************)
(* Bounds of the model.                                                    *)
(***************************************************************************)
MaxNow == 1          \* the clock runs from 0 to MaxNow
MaxCredLen == 1      \* code points in client_id and client_secret together
MaxTimeout == 2      \* the timeout given to wait_for_callback is 0..MaxTimeout seconds

None == "None"       \* Python's None
Absent == "Absent"   \* a key that a JSON object or a query string does not hold

(***************************************************************************)
(* config.py                                                               *)
(***************************************************************************)
EBAY_SANDBOX ==
    [consent_url |-> "https://auth.sandbox.ebay.com/oauth2/authorize",
     token_url   |-> "https://api.sandbox.ebay.com/identity/v1/oauth2/token",
     api_base    |-> "https://api.sandbox.ebay.com"]

EBAY_PRODUCTION ==
    [consent_url |-> "https://auth.ebay.com/oauth2/authorize",
     token_url   |-> "https://api.ebay.com/identity/v1/oauth2/token",
     api_base    |-> "https://api.ebay.com"]

ENVIRONMENTS == [sandbox |-> EBAY_SANDBOX, production |-> EBAY_PRODUCTION]

\* what ENVIRONMENTS.get gives for a name that is no key: None, which is false
NoConfig == [consent_url |-> None, token_url |-> None, api_base |-> None]

\* faulty variant: an unknown name falls back to the sandbox entry
ENVIRONMENTS_get_default(environment) ==
    IF environment \in DOMAIN ENVIRONMENTS THEN ENVIRONMENTS[environment]
    ELSE EBAY_SANDBOX

\* ENVIRONMENTS.get(environment)
ENVIRONMENTS_get(environment) ==
    IF environment \in DOMAIN ENVIRONMENTS THEN ENVIRONMENTS[environment] ELSE NoConfig

(***************************************************************************)
(* Text and bytes: str.encode(), base64.b64encode, bytes.decode()          *)
(***************************************************************************)
\* str.encode(): UTF-8, for code points below 2048
RECURSIVE encode(_)
encode(s) ==
    IF s = <<>> THEN <<>>
    ELSE LET c == Head(s) IN
         (IF c < 128 THEN <<c>> ELSE <<192 + (c \div 64), 128 + (c % 64)>>)
            \o encode(Tail(s))

PadSextet == 64      \* stands for the '=' that fills the last group

\* the sextets of base64.b64encode(bs), three bytes to four sextets
RECURSIVE b64sextets(_)
b64sextets(bs) ==
    IF Len(bs) = 0 THEN <<>>
    ELSE IF Len(bs) = 1 THEN
        <<bs[1] \div 4, (bs[1] % 4) * 16, PadSextet, PadSextet>>
    ELSE IF Len(bs) = 2 THEN
        <<bs[1] \div 4, (bs[1] % 4) * 16 + (bs[2] \div 16), (bs[2] % 16) * 4, PadSextet>>
    ELSE
        <<bs[1] \div 4, (bs[1] % 4) * 16 + (bs[2] \div 16),
          (bs[2] % 16) * 4 + (bs[3] \div 64), bs[3] % 64>>
            \o b64sextets(SubSeq(bs, 4, Len(bs)))

\* the character of the base64 alphabet A-Z a-z 0-9 + / for a sextet
b64char(x) ==
    IF x < 26 THEN 65 + x
    ELSE IF x < 52 THEN 97 + (x - 26)
    ELSE IF x < 62 THEN 48 + (x - 52)
    ELSE IF x = 62 THEN 43
    ELSE IF x = 63 THEN 47
    ELSE 61

\* base64.b64encode(bs).decode(): the text of the encoding
b64encode(bs) == LET sx == b64sextets(bs) IN [i \in 1..Len(sx) |-> b64char(sx[i])]

\* bytes.decode(): UTF-8 back to code points (the test's check of the header)
RECURSIVE decode(_)
decode(bs) ==
    IF bs = <<>> THEN <<>>
    ELSE IF Head(bs) < 128 THEN <<Head(bs)>> \o decode(Tail(bs))
    ELSE <<(bs[1] - 192) * 64 + (bs[2] - 128)>> \o decode(SubSeq(bs, 3, Len(bs)))

\* the sextet a character of the base64 alphabet stands for
b64index(c) ==
    IF 65 <= c /\ c <= 90 THEN c - 65
    ELSE IF 97 <= c /\ c <= 122 THEN c - 97 + 26
    ELSE IF 48 <= c /\ c <= 57 THEN c - 48 + 52
    ELSE IF c = 43 THEN 62
    ELSE IF c = 47 THEN 63
    ELSE PadSextet

\* base64.b64decode(text): four characters to three bytes (the test's check)
RECURSIVE b64decode(_)
b64decode(text) ==
    IF Len(text) < 4 THEN <<>>
    ELSE LET a == b64index(text[1])
             b == b64index(text[2])
             c == b64index(text[3])
             d == b64index(text[4])
             rest == b64decode(SubSeq(text, 5, Len(text)))
         IN  IF c = PadSextet THEN <<a * 4 + (b \div 16)>> \o rest
             ELSE IF d = PadSextet
             THEN <<a * 4 + (b \div 16), (b % 16) * 16 + (c \div 4)>> \o rest
             ELSE <<a * 4 + (b \div 16), (b % 16) * 16 + (c \div 4), (c % 4) * 64 + d>>
                    \o rest

Basic_ == <<66, 97, 115, 105, 99, 32>>    \* "Basic "
Colon == <<58>>                           \* ":"

(***************************************************************************)
(* auth.py: EbayOAuthClient                                                *)
(***************************************************************************)
SafetyMargin == 60           \* the 60s buffer of get_access_token
DefaultExpiresIn == 7200     \* data.get("expires_in", 7200)

\* faulty variant: no ValueError for an unknown environment
__init___default(client_id, client_secret, refresh_token, environment) ==
    LET env_config == ENVIRONMENTS_get_default(environment) IN
        [raised |-> None,
         client_id |-> client_id, client_secret |-> client_secret,
         refresh_token |-> refresh_token, environment |-> environment,
         token_url |-> env_config.token_url, api_base |-> env_config.api_base,
         _access_token |-> None, _token_expiry |-> 0]

\* EbayOAuthClient.__init__: the new instance, or the ValueError it raises
__init__(client_id, client_secret, refresh_token, environment) ==
    LET env_config == ENVIRONMENTS_get(environment) IN
    IF env_config = NoConfig
    THEN [raised |-> "ValueError",
          client_id |-> client_id, client_secret |-> client_secret,
          refresh_token |-> refresh_token, environment |-> environment,
          token_url |-> None, api_base |-> None,
          _access_token |-> None, _token_expiry |-> 0]
    ELSE [raised |-> None,
          client_id |-> client_id, client_secret |-> client_secret,
          refresh_token |-> refresh_token, environment |-> environment,
          token_url |-> env_config.token_url, api_base |-> env_config.api_base,
          _access_token |-> None, _token_expiry |-> 0]

\* faulty variant: client_secret and client_id in the wrong order
_basic_auth_header_swapped(s) ==
    Basic_ \o b64encode(encode(s.client_secret \o Colon \o s.client_id))

\* EbayOAuthClient._basic_auth_header
_basic_auth_header(s) ==
    LET credentials == s.client_id \o Colon \o s.client_secret
        encoded == b64encode(encode(credentials))
    IN  Basic_ \o encoded

\* the truth value Python gives a token: None and "" are false
Truthy(tok) == tok # None /\ tok # ""

\* faulty variant: the comparison with the margin is <= instead of <
CacheValid_inclusive(s, t) == Truthy(s._access_token) /\ t <= s._token_expiry - SafetyMargin

\* faulty variant: a margin of 61 seconds
CacheValid_wider(s, t) == Truthy(s._access_token) /\ t < s._token_expiry - (SafetyMargin + 1)

\* the test of get_access_token: the cached token is still valid at time t
CacheValid(s, t) == Truthy(s._access_token) /\ t < s._token_expiry - SafetyMargin

\* the POST of _refresh_access_token
TokenRequest(s) ==
    [url |-> s.token_url,
     content_type |-> "application/x-www-form-urlencoded",
     authorization |-> _basic_auth_header(s),
     grant_type |-> "refresh_token",
     refresh_token |-> s.refresh_token]

NoRequest ==
    [url |-> None, content_type |-> None, authorization |-> <<>>,
     grant_type |-> None, refresh_token |-> None]

\* response.raise_for_status() passes
is_success(status) == 200 <= status /\ status <= 299

\* faulty variant: the token is cached before it is tested
_refresh_access_token_early_write(s, resp, t) ==
    LET s1 == [s EXCEPT !._access_token = resp.access_token] IN
    IF ~is_success(resp.status)
    THEN [self |-> s, raised |-> "HTTPStatusError", ret |-> None]
    ELSE IF ~Truthy(resp.access_token)
    THEN [self |-> s1, raised |-> "RuntimeError", ret |-> None]
    ELSE IF resp.expires_in.kind = "bad"
    THEN [self |-> s1, raised |-> "ValueError", ret |-> None]
    ELSE [self |-> [s1 EXCEPT !._token_expiry = t +
                        (IF resp.expires_in.kind = "absent" THEN DefaultExpiresIn
                         ELSE resp.expires_in.v)],
          raised |-> None, ret |-> resp.access_token]

\* faulty variant: a refused exchange gives back the cached token
_refresh_access_token_stale(s, resp, t) ==
    LET s1 == [s EXCEPT !._access_token = resp.access_token] IN
    IF ~is_success(resp.status)
    THEN [self |-> s, raised |-> None, ret |-> s._access_token]
    ELSE IF ~Truthy(resp.access_token)
    THEN [self |-> s, raised |-> "RuntimeError", ret |-> None]
    ELSE IF resp.expires_in.kind = "bad"
    THEN [self |-> s1, raised |-> "ValueError", ret |-> None]
    ELSE [self |-> [s1 EXCEPT !._token_expiry = t +
                        (IF resp.expires_in.kind = "absent" THEN DefaultExpiresIn
                         ELSE resp.expires_in.v)],
          raised |-> None, ret |-> resp.access_token]

\* faulty variant: a negative expires_in is taken for 0
_refresh_access_token_clamped(s, resp, t) ==
    IF ~is_success(resp.status)
    THEN [self |-> s, raised |-> "HTTPStatusError", ret |-> None]
    ELSE IF ~Truthy(resp.access_token)
    THEN [self |-> s, raised |-> "RuntimeError", ret |-> None]
    ELSE LET s1 == [s EXCEPT !._access_token = resp.access_token] IN
         IF resp.expires_in.kind = "bad"
         THEN [self |-> s1, raised |-> "ValueError", ret |-> None]
         ELSE [self |-> [s1 EXCEPT !._token_expiry = t +
                            (IF resp.expires_in.kind = "absent" THEN DefaultExpiresIn
                             ELSE IF resp.expires_in.v < 0 THEN 0
                             ELSE resp.expires_in.v)],
               raised |-> None, ret |-> resp.access_token]

\* _refresh_access_token from after the POST: resp is the response, t the time
\* time.time() gives once it has arrived
_refresh_access_token(s, resp, t) ==
    IF ~is_success(resp.status)
    THEN [self |-> s, raised |-> "HTTPStatusError", ret |-> None]
    ELSE IF ~Truthy(resp.access_token)
    THEN [self |-> s, raised |-> "RuntimeError", ret |-> None]
    ELSE LET s1 == [s EXCEPT !._access_token = resp.access_token] IN
         IF resp.expires_in.kind = "bad"
         THEN [self |-> s1, raised |-> "ValueError", ret |-> None]
         ELSE [self |-> [s1 EXCEPT !._token_expiry = t +
                            (IF resp.expires_in.kind = "absent" THEN DefaultExpiresIn
                             ELSE resp.expires_in.v)],
               raised |-> None, ret |-> resp.access_token]

(***************************************************************************)
(* The inputs: constructor arguments and token endpoint responses.         *)
(***************************************************************************)
Alphabet == {97, 233}        \* "a" (one byte in UTF-8) and "e acute" (two bytes)

RECURSIVE Texts(_)
Texts(n) ==
    IF n = 0 THEN {<<>>}
    ELSE LET shorter == Texts(n - 1) IN
         shorter \cup {Append(s, c) : s \in {x \in shorter : Len(x) = n - 1}, c \in Alphabet}

Credentials ==
    {p \in Texts(MaxCredLen) \X Texts(MaxCredLen) : Len(p[1]) + Len(p[2]) <= MaxCredLen}

RefreshTokens == {"rt1", "rt2"}
EnvironmentNames == {"sandbox", "production", "invalid", ""}
AccessTokens == {"tokA", "tokB"}
Delays == {0, 1}             \* seconds a token request may take

\* the expires_in of a response: absent, no number, or a number of seconds
ExpiresIn ==
    {[kind |-> "absent", v |-> 0], [kind |-> "bad", v |-> 0]}
        \cup {[kind |-> "int", v |-> n] :
                n \in {-1, 0, SafetyMargin - 1, SafetyMargin, SafetyMargin + 1}}

NoExpiresIn == [kind |-> "absent", v |-> 0]

\* the responses of the token endpoint: a refusal, a 200 without a usable
\* access_token, a 200 with one
Responses ==
    {[status |-> 401, access_token |-> Absent, expires_in |-> NoExpiresIn]}
        \cup {[status |-> 200, access_token |-> tok, expires_in |-> NoExpiresIn] :
                tok \in {Absent, ""}}
        \cup {[status |-> 200, access_token |-> tok, expires_in |-> e] :
                tok \in AccessTokens, e \in ExpiresIn}

NoResponse == [status |-> 0, access_token |-> Absent, expires_in |-> NoExpiresIn]

\* data.get("access_token"): None when the key is absent
Parsed(resp) ==
    [resp EXCEPT !.access_token = IF @ = Absent THEN None ELSE @]

(***************************************************************************)
(* The calls on the manager.                                               *)
(***************************************************************************)
Ready == self.raised = None

\* the record of a call: what it sent, what it got, what it gave back and when
Call(op, posts, request, resp, res, t_ret) ==
    [op |-> op, raised |-> res.raised, ret |-> res.ret, posts |-> posts,
     request |-> request, response |-> resp, t_ret |-> t_ret,
     warm |-> CacheValid(self, now)]

\* get_access_token()
get_access_token ==
    /\ Ready
    /\ IF CacheValid(self, now)
       THEN /\ last' = Call("get_access_token", 0, NoRequest, NoResponse,
                            [raised |-> None, ret |-> self._access_token], now)
            /\ UNCHANGED <<self, now>>
       ELSE \E resp \in Responses, d \in Delays :
            LET res == _refresh_access_token(self, Parsed(resp), now + d) IN
            /\ now + d <= MaxNow
            /\ self' = res.self
            /\ now' = now + d
            /\ last' = Call("get_access_token", 1, TokenRequest(self), resp, res, now + d)
    /\ UNCHANGED <<srvVars, stoVars, cli, thr>>

\* faulty variant: the cache is not cleared, so a warm cache is served
force_refresh_lazy ==
    /\ Ready
    /\ IF CacheValid(self, now)
       THEN /\ last' = Call("force_refresh", 0, NoRequest, NoResponse,
                            [raised |-> None, ret |-> self._access_token], now)
            /\ UNCHANGED <<self, now>>
       ELSE \E resp \in Responses, d \in Delays :
            LET res == _refresh_access_token(self, Parsed(resp), now + d) IN
            /\ now + d <= MaxNow
            /\ self' = res.self
            /\ now' = now + d
            /\ last' = Call("force_refresh", 1, TokenRequest(self), resp, res, now + d)
    /\ UNCHANGED <<srvVars, stoVars, cli, thr>>

\* force_refresh()
force_refresh ==
    /\ Ready
    /\ \E resp \in Responses, d \in Delays :
        LET cleared == [self EXCEPT !._access_token = None, !._token_expiry = 0]
            res == _refresh_access_token(cleared, Parsed(resp), now + d)
        IN  /\ now + d <= MaxNow
            /\ self' = res.self
            /\ now' = now + d
            /\ last' = Call("force_refresh", 1, TokenRequest(cleared), resp, res, now + d)
    /\ UNCHANGED <<srvVars, stoVars, cli, thr>>

\* the clock moves on between calls
Tick ==
    /\ now < MaxNow
    /\ now' = now + 1
    /\ UNCHANGED <<self, last>>
    /\ UNCHANGED <<srvVars, stoVars, cli, thr>>

(***************************************************************************)
(* The manager's specification: the state after construction, then calls.  *)
(***************************************************************************)
\* the listener before start_callback_server: nothing bound, nobody waiting
NoBundle ==
    [access_token |-> None, refresh_token |-> None, expires_in |-> None,
     refresh_token_expires_in |-> None]

NoQuery ==
    [nonce |-> Absent, error |-> Absent, error_description |-> Absent,
     access_token |-> Absent, refresh_token |-> Absent, expires_in |-> Absent,
     refresh_token_expires_in |-> Absent]

NoServer ==
    [raised |-> None, port |-> 0, socket |-> "none", expected_nonce |-> None,
     callback_result |-> NoBundle, callback_error |-> None, callback_done |-> FALSE]

NotWaiting == [pc |-> "idle", deadline |-> 0, raised |-> None, ret |-> NoBundle]

NothingSeen ==
    [callback_arrived |-> FALSE, consumed |-> [path |-> None, query |-> NoQuery],
     path |-> None, status |-> 0, later |-> FALSE]

SrvIdle ==
    /\ server = NoServer
    /\ wait = NotWaiting
    /\ mono = 0
    /\ seen = NothingSeen

\* no keychain entry, no call on token_storage, no command run
NoPassword == [present |-> FALSE, password |-> <<>>]
NoOut == [op |-> None]
NoCommand == [cmd |-> None]

StoIdle ==
    /\ keyring = NoPassword
    /\ out = NoOut
    /\ cli = NoCommand

\* no thread besides the caller
NoThreads == <<>>

Init ==
    /\ \E cred \in Credentials, rt \in RefreshTokens, env \in EnvironmentNames :
        /\ self = __init__(cred[1], cred[2], rt, env)
        /\ last = [op |-> "__init__", raised |-> self.raised, ret |-> None, posts |-> 0,
                   request |-> NoRequest, response |-> NoResponse, t_ret |-> 0,
                   warm |-> FALSE]
    /\ now = 0
    /\ SrvIdle
    /\ StoIdle
    /\ thr = NoThreads

Next == get_access_token \/ force_refresh \/ Tick

Spec == Init /\ [][Next]_vars

(***************************************************************************)
(* server.py: the loopback callback listener                               *)
(***************************************************************************)
CALLBACK_PORT_RANGE == <<8880, 8899>>
PollSeconds == 1             \* server.timeout = 1, the wait of one handle_request

Ports == CALLBACK_PORT_RANGE[1] .. CALLBACK_PORT_RANGE[2]

\* _find_available_port: the first port of the range that binds; 0 stands for
\* the RuntimeError when none does
_find_available_port(busy) ==
    LET free == Ports \ busy IN
    IF free = {} THEN 0 ELSE CHOOSE port \in free : \A q \in free : port <= q

Nonces == {"n1", "n2"}       \* values _generate_nonce may give
BusyPorts == {{}, {8880}, {8880, 8881}, Ports}

\* start_callback_server: the server it returns, or the error it raises
start_callback_server(busy, nonce) ==
    LET port == _find_available_port(busy) IN
    IF port = 0
    THEN [NoServer EXCEPT !.raised = "RuntimeError"]
    ELSE [raised |-> None, port |-> port, socket |-> "bound",
          expected_nonce |-> nonce, callback_result |-> NoBundle,
          callback_error |-> None, callback_done |-> FALSE]

\* parse_qs(parsed.query).get(key, [None])[0]: parse_qs drops blank values
get(query, key) == IF query[key] \in {Absent, ""} THEN None ELSE query[key]

\* the GET requests a client may send
CallbackQueries ==
    [nonce : {Absent, ""} \cup Nonces,
     error : {Absent, "", "access_denied"},
     error_description : {Absent, "The user denied access"},
     access_token : {Absent, "at1"},
     refresh_token : {Absent, "", "rt1"},
     expires_in : {Absent, "7200"},
     refresh_token_expires_in : {"47304000"}]

Requests ==
    {[path |-> "/favicon.ico", query |-> NoQuery]}
        \cup {[path |-> "/callback", query |-> q] : q \in CallbackQueries}

\* faulty variant: the nonce is not compared
do_GET_no_nonce_check(srv, req, written) ==
    LET params == req.query
        error == get(params, "error")
        desc == IF get(params, "error_description") = None THEN error
                ELSE get(params, "error_description")
        refresh_token == get(params, "refresh_token")
    IN  IF ~written THEN [server |-> srv, status |-> 0]
        ELSE IF req.path # "/callback" THEN [server |-> srv, status |-> 404]
        ELSE IF error # None
        THEN [server |-> [srv EXCEPT !.callback_error = desc, !.callback_done = TRUE],
              status |-> 400]
        ELSE IF refresh_token = None
        THEN [server |-> [srv EXCEPT !.callback_error = "Missing refresh token",
                                     !.callback_done = TRUE],
              status |-> 400]
        ELSE [server |-> [srv EXCEPT
                    !.callback_result =
                        [access_token |-> get(params, "access_token"),
                         refresh_token |-> refresh_token,
                         expires_in |-> get(params, "expires_in"),
                         refresh_token_expires_in |->
                            get(params, "refresh_token_expires_in")],
                    !.callback_done = TRUE],
              status |-> 200]

\* _CallbackHandler.do_GET on server srv; written tells whether the response
\* could be written to the client (when not, the write raises and the handler
\* ends there, which handle_request reports and survives)
do_GET(srv, req, written) ==
    LET params == req.query
        received_nonce == get(params, "nonce")
        error == get(params, "error")
        desc == IF get(params, "error_description") = None THEN error
                ELSE get(params, "error_description")
        refresh_token == get(params, "refresh_token")
    IN  IF ~written THEN [server |-> srv, status |-> 0]
        ELSE IF req.path # "/callback" THEN [server |-> srv, status |-> 404]
        ELSE IF received_nonce # srv.expected_nonce
        THEN [server |-> [srv EXCEPT !.callback_error = "Nonce mismatch",
                                     !.callback_done = TRUE],
              status |-> 400]
        ELSE IF error # None
        THEN [server |-> [srv EXCEPT !.callback_error = desc, !.callback_done = TRUE],
              status |-> 400]
        ELSE IF refresh_token = None
        THEN [server |-> [srv EXCEPT !.callback_error = "Missing refresh token",
                                     !.callback_done = TRUE],
              status |-> 400]
        ELSE [server |-> [srv EXCEPT
                    !.callback_result =
                        [access_token |-> get(params, "access_token"),
                         refresh_token |-> refresh_token,
                         expires_in |-> get(params, "expires_in"),
                         refresh_token_expires_in |->
                            get(params, "refresh_token_expires_in")],
                    !.callback_done = TRUE],
              status |-> 200]

\* wait_for_callback(server, timeout) is called: deadline = time.monotonic() + timeout
wait_for_callback ==
    /\ wait.pc = "idle"
    /\ server.socket = "bound"
    /\ \E timeout \in 0..MaxTimeout :
        wait' = [wait EXCEPT !.pc = "loop", !.deadline = mono + timeout]
    /\ UNCHANGED <<server, mono, seen>>
    /\ UNCHANGED <<mgrVars, stoVars, cli, thr>>

\* the loop is entered: no callback yet and the deadline has not passed
Polling ==
    /\ wait.pc = "loop"
    /\ ~server.callback_done
    /\ ~(mono > wait.deadline)

\* server.handle_request() with no connection within server.timeout
handle_request_timeout ==
    /\ Polling
    /\ mono' = mono + PollSeconds
    /\ UNCHANGED <<server, wait, seen>>
    /\ UNCHANGED <<mgrVars, stoVars, cli, thr>>

\* server.handle_request() with a request: do_GET answers it; d seconds pass
handle_request(d) ==
    /\ Polling
    /\ \E req \in Requests, written \in BOOLEAN :
        LET done == do_GET(server, req, written) IN
        /\ server' = done.server
        /\ seen' = [callback_arrived |-> seen.callback_arrived \/ req.path = "/callback",
                    consumed |-> IF done.server.callback_done THEN req ELSE seen.consumed,
                    path |-> req.path,
                    status |-> done.status,
                    later |-> seen.later \/ seen.callback_arrived]
    /\ mono' = mono + d
    /\ UNCHANGED wait
    /\ UNCHANGED <<mgrVars, stoVars, cli, thr>>

\* server.handle_request() with a connection that sends no request line: the
\* handler's read has no timeout and never returns
handle_request_stalled ==
    /\ Polling
    /\ wait' = [wait EXCEPT !.pc = "blocked"]
    /\ UNCHANGED <<server, mono, seen>>
    /\ UNCHANGED <<mgrVars, stoVars, cli, thr>>

\* server.handle_request() left by an exception that socketserver passes on
\* (it reports and survives Exception only): a KeyboardInterrupt while the
\* request is awaited or handled goes through finally and on to the caller
handle_request_interrupted ==
    /\ Polling \/ wait.pc = "blocked"
    /\ server' = [server EXCEPT !.socket = "closed"]
    /\ wait' = [wait EXCEPT !.pc = "done", !.raised = "KeyboardInterrupt"]
    /\ UNCHANGED <<mono, seen>>
    /\ UNCHANGED <<mgrVars, stoVars, cli, thr>>

\* faulty variant: server_close() after the loop instead of in finally
raise_TimeoutError_no_finally ==
    /\ wait.pc = "loop"
    /\ ~server.callback_done
    /\ mono > wait.deadline
    /\ wait' = [wait EXCEPT !.pc = "done", !.raised = "TimeoutError"]
    /\ UNCHANGED <<server, mono, seen>>
    /\ UNCHANGED <<mgrVars, stoVars, cli, thr>>

\* the loop finds the deadline passed: TimeoutError, through finally
raise_TimeoutError ==
    /\ wait.pc = "loop"
    /\ ~server.callback_done
    /\ mono > wait.deadline
    /\ server' = [server EXCEPT !.socket = "closed"]
    /\ wait' = [wait EXCEPT !.pc = "done", !.raised = "TimeoutError"]
    /\ UNCHANGED <<mono, seen>>
    /\ UNCHANGED <<mgrVars, stoVars, cli, thr>>

\* the loop finds callback_done set: finally, then RuntimeError or the result
wait_return ==
    /\ wait.pc = "loop"
    /\ server.callback_done
    /\ server' = [server EXCEPT !.socket = "closed"]
    /\ wait' = IF server.callback_error # None
               THEN [wait EXCEPT !.pc = "done", !.raised = "RuntimeError"]
               ELSE [wait EXCEPT !.pc = "done", !.ret = server.callback_result]
    /\ UNCHANGED <<mono, seen>>
    /\ UNCHANGED <<mgrVars, stoVars, cli, thr>>

\* no manager takes part in the listener's runs
NoManager ==
    [raised |-> "NoManager", client_id |-> <<>>, client_secret |-> <<>>,
     refresh_token |-> None, environment |-> None, token_url |-> None,
     api_base |-> None, _access_token |-> None, _token_expiry |-> 0]

NoCall ==
    [op |-> None, raised |-> None, ret |-> None, posts |-> 0,
     request |-> NoRequest, response |-> NoResponse, t_ret |-> 0, warm |-> FALSE]

\* the state after start_callback_server()
ListenerInit ==
    /\ \E busy \in BusyPorts, nonce \in Nonces :
        server = start_callback_server(busy, nonce)
    /\ wait = NotWaiting
    /\ mono = 0
    /\ seen = NothingSeen
    /\ self = NoManager
    /\ now = 0
    /\ last = NoCall
    /\ StoIdle
    /\ thr = NoThreads

ListenerNext ==
    \/ wait_for_callback
    \/ handle_request_timeout
    \/ \E d \in {0, 1} : handle_request(d)
    \/ handle_request_stalled
    \/ handle_request_interrupted
    \/ raise_TimeoutError
    \/ wait_return

ListenerSpec == ListenerInit /\ [][ListenerNext]_vars

\* a request is answered within a second or the poll runs out after one: time
\* passes while the loop runs
TimePasses == handle_request_timeout \/ handle_request(1)

\* the loop runs on, and the clock with it
ListenerFair ==
    /\ ListenerSpec
    /\ WF_vars(wait_for_callback)
    /\ WF_vars(TimePasses)
    /\ WF_vars(raise_TimeoutError)
    /\ WF_vars(wait_return)

(***************************************************************************)
(* token_storage.py: the credential record in the OS keychain               *)
(*                                                                         *)
(* A dict is a function from its keys to its values; a JSON text is the     *)
(* sequence of its tokens.                                                  *)
(***************************************************************************)
\* the keys a dict of the program may hold, in the order they are inserted
DictKeys ==
    <<"refresh_token", "access_token", "environment", "client_id",
      "client_secret", "redirect_uri">>

EmptyDict == <<>>            \* {}

\* the tokens of a JSON text
JBegin == [t |-> "{", v |-> ""]
JEnd == [t |-> "}", v |-> ""]
JColon == [t |-> ":", v |-> ""]
JComma == [t |-> ",", v |-> ""]
JNull == [t |-> "null", v |-> ""]
JString(v) == [t |-> "string", v |-> v]

\* the members of json.dumps(d) for the keys ks
RECURSIVE dumps_items(_, _)
dumps_items(d, ks) ==
    IF ks = <<>> THEN <<>>
    ELSE <<JString(Head(ks)), JColon,
           (IF d[Head(ks)] = None THEN JNull ELSE JString(d[Head(ks)]))>>
            \o (IF Tail(ks) = <<>> THEN <<>>
                ELSE <<JComma>> \o dumps_items(d, Tail(ks)))

\* json.dumps(d) for a dict of strings and None
json_dumps(d) ==
    <<JBegin>> \o dumps_items(d, SelectSeq(DictKeys, LAMBDA k : k \in DOMAIN d))
        \o <<JEnd>>

\* what a call gives back: None, a dict, a bool or a str
RetNone == [kind |-> "None", dict |-> EmptyDict, bool |-> FALSE, str |-> ""]
RetDict(d) == [kind |-> "dict", dict |-> d, bool |-> FALSE, str |-> ""]
RetBool(b) == [kind |-> "bool", dict |-> EmptyDict, bool |-> b, str |-> ""]
RetStr(x) == [kind |-> "str", dict |-> EmptyDict, bool |-> FALSE, str |-> x]

\* the members of a JSON object between its braces, parsed: a later member
\* with the same key wins
RECURSIVE loads_items(_)
loads_items(ts) ==
    IF Len(ts) < 3 \/ ts[1].t # "string" \/ ts[2] # JColon
            \/ ts[3].t \notin {"string", "null"}
    THEN [ok |-> FALSE, dict |-> EmptyDict]
    ELSE LET item == ts[1].v :> (IF ts[3] = JNull THEN None ELSE ts[3].v) IN
         IF Len(ts) = 3 THEN [ok |-> TRUE, dict |-> item]
         ELSE IF ts[4] # JComma THEN [ok |-> FALSE, dict |-> EmptyDict]
         ELSE LET rest == loads_items(SubSeq(ts, 5, Len(ts))) IN
              [ok |-> rest.ok, dict |-> rest.dict @@ item]

\* json.loads(text): the value, or the JSONDecodeError it raises
json_loads(text) ==
    IF text = <<JNull>> THEN [raised |-> None, value |-> RetNone]
    ELSE IF Len(text) = 1 /\ text[1].t = "string"
    THEN [raised |-> None, value |-> RetStr(text[1].v)]
    ELSE IF Len(text) = 2 /\ text = <<JBegin, JEnd>>
    THEN [raised |-> None, value |-> RetDict(EmptyDict)]
    ELSE IF Len(text) > 2 /\ text[1] = JBegin /\ text[Len(text)] = JEnd
    THEN LET items == loads_items(SubSeq(text, 2, Len(text) - 1)) IN
         IF items.ok THEN [raised |-> None, value |-> RetDict(items.dict)]
         ELSE [raised |-> "JSONDecodeError", value |-> RetNone]
    ELSE [raised |-> "JSONDecodeError", value |-> RetNone]

\* store_credentials(credentials) on keychain entry kr; fails: the keyring
\* backend raises (locked, no backend)
store_credentials(kr, credentials, fails) ==
    IF fails THEN [keyring |-> kr, raised |-> "KeyringError", ret |-> RetNone]
    ELSE [keyring |-> [present |-> TRUE, password |-> json_dumps(credentials)],
          raised |-> None, ret |-> RetNone]

\* get_credentials(): every exception, of the backend or of json.loads, is
\* caught and None returned; so is a missing or empty password
get_credentials(kr, fails) ==
    IF fails THEN [keyring |-> kr, raised |-> None, ret |-> RetNone]
    ELSE IF ~kr.present \/ kr.password = <<>>
    THEN [keyring |-> kr, raised |-> None, ret |-> RetNone]
    ELSE LET loaded == json_loads(kr.password) IN
         IF loaded.raised # None
         THEN [keyring |-> kr, raised |-> None, ret |-> RetNone]
         ELSE [keyring |-> kr, raised |-> None, ret |-> loaded.value]

\* faulty variant: the error of delete_password is not caught
delete_credentials_raising(kr, fails) ==
    IF fails \/ ~kr.present
    THEN [keyring |-> kr, raised |-> "PasswordDeleteError", ret |-> RetNone]
    ELSE [keyring |-> NoPassword, raised |-> None, ret |-> RetBool(TRUE)]

\* delete_credentials(): keyring.delete_password raises when there is no
\* entry or the backend fails, which is caught and False returned
delete_credentials(kr, fails) ==
    IF fails \/ ~kr.present
    THEN [keyring |-> kr, raised |-> None, ret |-> RetBool(FALSE)]
    ELSE [keyring |-> NoPassword, raised |-> None, ret |-> RetBool(TRUE)]

\* has_credentials()
has_credentials(kr, fails) ==
    [keyring |-> kr, raised |-> None,
     ret |-> RetBool(get_credentials(kr, fails).ret.kind # "None")]

\* the credential records a caller may store
Records ==
    {EmptyDict} \cup
    [refresh_token : {"rt1", "rt2"}, access_token : {None, "at1"},
     environment : {"sandbox", "production"}, client_id : {"id1"}]

\* the record of a call on token_storage: the call, its outcome, whether
\* there was an entry when it was made, the call before it, and the record
\* that the last store put and no delete removed
StoreCall(op, arg, fails, res, held) ==
    [op |-> op, arg |-> arg, fails |-> fails, raised |-> res.raised, ret |-> res.ret,
     had |-> keyring.present,
     prev |-> [op |-> out.op, ret |-> out.ret, raised |-> out.raised],
     held |-> held]

call_store_credentials ==
    \E credentials \in Records, fails \in BOOLEAN :
        LET res == store_credentials(keyring, credentials, fails) IN
        /\ keyring' = res.keyring
        /\ out' = StoreCall("store_credentials", credentials, fails, res,
                            IF fails THEN out.held ELSE RetDict(credentials))
        /\ UNCHANGED <<mgrVars, srvVars, cli, thr>>

call_get_credentials ==
    \E fails \in BOOLEAN :
        LET res == get_credentials(keyring, fails) IN
        /\ keyring' = res.keyring
        /\ out' = StoreCall("get_credentials", EmptyDict, fails, res, out.held)
        /\ UNCHANGED <<mgrVars, srvVars, cli, thr>>

call_delete_credentials ==
    \E fails \in BOOLEAN :
        LET res == delete_credentials(keyring, fails) IN
        /\ keyring' = res.keyring
        /\ out' = StoreCall("delete_credentials", EmptyDict, fails, res,
                            IF res.keyring.present THEN out.held ELSE RetNone)
        /\ UNCHANGED <<mgrVars, srvVars, cli, thr>>

call_has_credentials ==
    \E fails \in BOOLEAN :
        LET res == has_credentials(keyring, fails) IN
        /\ keyring' = res.keyring
        /\ out' = StoreCall("has_credentials", EmptyDict, fails, res, out.held)
        /\ UNCHANGED <<mgrVars, srvVars, cli, thr>>

\* passwords of the entry that are no record: an empty one, and a JSON text
\* that was cut short, which json.loads rejects
UnreadablePasswords == {<<>>, <<JBegin, JString("refresh_token"), JColon>>}

\* no call made yet; had: there is an entry, held: the record it holds
NoStoreCall(had, held) ==
    [op |-> None, arg |-> EmptyDict, fails |-> FALSE, raised |-> None,
     ret |-> RetNone, had |-> had,
     prev |-> [op |-> None, ret |-> RetNone, raised |-> None],
     held |-> held]

\* a process starts with the keychain as it was left: no entry, the record of
\* an earlier store, or an entry that is no record
StoreInit ==
    /\ \/ \E before \in {RetNone} \cup {RetDict(r) : r \in Records} :
            /\ keyring = IF before = RetNone THEN NoPassword
                         ELSE store_credentials(NoPassword, before.dict, FALSE).keyring
            /\ out = NoStoreCall(before # RetNone, before)
       \/ \E password \in UnreadablePasswords :
            /\ keyring = [present |-> TRUE, password |-> password]
            /\ out = NoStoreCall(TRUE, RetNone)
    /\ cli = NoCommand
    /\ thr = NoThreads
    /\ self = NoManager
    /\ now = 0
    /\ last = NoCall
    /\ SrvIdle

StoreNext ==
    \/ call_store_credentials
    \/ call_get_credentials
    \/ call_delete_credentials
    \/ call_has_credentials

StoreSpec == StoreInit /\ [][StoreNext]_vars

(***************************************************************************)
(* cli.py: the commands setup, status, refresh and logout                   *)
(***************************************************************************)
\* os.environ as a command finds it
Environs ==
    [EBAY_CLIENT_ID : {Absent, "id1"},
     EBAY_CLIENT_SECRET : {Absent, "", "sec1"},
     EBAY_RUNAME : {Absent, "ru1"}]

NoEnviron ==
    [EBAY_CLIENT_ID |-> Absent, EBAY_CLIENT_SECRET |-> Absent, EBAY_RUNAME |-> Absent]

\* os.environ.get(key) and os.environ.get(key, default)
environ_get(environ, key, default) ==
    IF environ[key] = Absent THEN default ELSE environ[key]

\* the query of the URL the user pastes at the prompt of setup
PastedQueries ==
    {[code |-> "code1", error |-> Absent], [code |-> "", error |-> Absent],
     [code |-> Absent, error |-> Absent], [code |-> Absent, error |-> "access_denied"]}

\* the answers of the token endpoint to the refresh of status and refresh: a
\* refusal, a 200 without access_token, a 200 with a token and with or without
\* a usable expires_in
RefreshResponses ==
    {r \in Responses :
        /\ r.access_token \in {Absent, "tokA"}
        /\ r.expires_in.kind \in {"absent", "bad"}}

\* the answers of the token endpoint to the authorization-code exchange
CodeResponses ==
    [status : {200, 400}, refresh_token : {Absent, "rt1"}, access_token : {Absent, "at1"}]

\* _exchange_code_for_tokens: the request it posts and the JSON it returns,
\* or the HTTPStatusError of raise_for_status
_exchange_code_for_tokens(code, environment, client_id, client_secret, runame, resp) ==
    [request |-> [url |-> ENVIRONMENTS[environment].token_url,
                  content_type |-> "application/x-www-form-urlencoded",
                  authorization |-> [scheme |-> "Basic", user |-> client_id,
                                     password |-> client_secret],
                  grant_type |-> "authorization_code",
                  code |-> code,
                  redirect_uri |-> runame],
     raised |-> IF is_success(resp.status) THEN None ELSE "HTTPStatusError",
     token_data |-> resp]

\* faulty variant: the record of setup also keeps the secret and the RuName
setup_credentials_with_secret(token_data, environment, environ) ==
    [refresh_token |-> token_data.refresh_token,
     access_token |-> IF token_data.access_token = Absent THEN None
                      ELSE token_data.access_token,
     environment |-> environment,
     client_id |-> environ_get(environ, "EBAY_CLIENT_ID", None),
     client_secret |-> environ_get(environ, "EBAY_CLIENT_SECRET", None),
     redirect_uri |-> environ_get(environ, "EBAY_RUNAME", "")]

\* the dict that setup stores
setup_credentials(token_data, environment, environ) ==
    [refresh_token |-> token_data.refresh_token,
     access_token |-> IF token_data.access_token = Absent THEN None
                      ELSE token_data.access_token,
     environment |-> environment,
     client_id |-> environ_get(environ, "EBAY_CLIENT_ID", None)]

\* how a command ends: its exit status, where its last message went (stdout,
\* stderr, or the traceback of an exception nothing caught), the failure it
\* met, the keychain entry it leaves, and the EbayOAuthClient it built, as
\* the command left it (NoManager when it built none)
Exit(kr, status, echoed, failure, client) ==
    [keyring |-> kr, exit |-> status, echoed |-> echoed, failure |-> failure,
     client |-> client]

\* faulty variant: setup reads the refresh token with token_data.get, and so
\* stores a record without one when the response has none
run_setup_get_refresh_token(kr, environment, environ, pasted, resp, fails) ==
    LET client_id == environ_get(environ, "EBAY_CLIENT_ID", None)
        client_secret == environ_get(environ, "EBAY_CLIENT_SECRET", None)
        runame == environ_get(environ, "EBAY_RUNAME", "")
        code == get(pasted, "code")
    IN  IF ~Truthy(client_id) \/ ~Truthy(client_secret)
        THEN Exit(kr, 1, "stderr", "missing client id or secret", NoManager)
        ELSE IF ~Truthy(code)
        THEN Exit(kr, 1, "stderr", "no code in the pasted URL", NoManager)
        ELSE LET exchange == _exchange_code_for_tokens(code, environment, client_id,
                                                       client_secret, runame, resp)
                 token_data == [exchange.token_data EXCEPT !.refresh_token =
                                    IF @ = Absent THEN None ELSE @]
             IN  IF exchange.raised # None
                 THEN Exit(kr, 1, "stderr", "code exchange failed", NoManager)
                 ELSE LET stored == store_credentials(kr,
                                        setup_credentials(token_data, environment,
                                                          environ),
                                        fails)
                      IN  IF stored.raised # None
                          THEN Exit(kr, 1, "traceback", "KeyringError", NoManager)
                          ELSE Exit(stored.keyring, 0, "stdout", None, NoManager)

\* setup: environment is the --environment option, pasted the query of the
\* pasted URL, resp the answer to the code exchange, fails the keyring backend
run_setup(kr, environment, environ, pasted, resp, fails) ==
    LET client_id == environ_get(environ, "EBAY_CLIENT_ID", None)
        client_secret == environ_get(environ, "EBAY_CLIENT_SECRET", None)
        runame == environ_get(environ, "EBAY_RUNAME", "")
        code == get(pasted, "code")
    IN  IF ~Truthy(client_id) \/ ~Truthy(client_secret)
        THEN Exit(kr, 1, "stderr", "missing client id or secret", NoManager)
        ELSE IF ~Truthy(code)
        THEN Exit(kr, 1, "stderr", "no code in the pasted URL", NoManager)
        ELSE LET exchange == _exchange_code_for_tokens(code, environment, client_id,
                                                       client_secret, runame, resp)
             IN  IF exchange.raised # None
                 THEN Exit(kr, 1, "stderr", "code exchange failed", NoManager)
                 ELSE IF exchange.token_data.refresh_token = Absent
                 THEN Exit(kr, 1, "traceback", "KeyError", NoManager)
                 ELSE LET stored == store_credentials(kr,
                                        setup_credentials(exchange.token_data,
                                                          environment, environ),
                                        fails)
                      IN  IF stored.raised # None
                          THEN Exit(kr, 1, "traceback", "KeyringError", NoManager)
                          ELSE Exit(stored.keyring, 0, "stdout", None, NoManager)

\* `if not creds`: None and {} are false
HasCreds(ret) == ret.kind = "dict" /\ ret.dict # EmptyDict

\* creds.get(key, default)
creds_get(creds, key, default) ==
    IF key \in DOMAIN creds THEN creds[key] ELSE default

\* the EbayOAuthClient that status and refresh build from the stored record
\* and the environment variables
client_of(creds, environ) ==
    __init__(environ_get(environ, "EBAY_CLIENT_ID", creds_get(creds, "client_id", "")),
             environ_get(environ, "EBAY_CLIENT_SECRET", ""),
             creds_get(creds, "refresh_token", ""),
             creds_get(creds, "environment", "sandbox"))

\* status: resp is the answer of the token endpoint, t the time
run_status(kr, environ, resp, fails, t) ==
    LET creds == get_credentials(kr, fails).ret
        client_secret == environ_get(environ, "EBAY_CLIENT_SECRET", "")
    IN  IF ~HasCreds(creds)
        THEN Exit(kr, 1, "stdout", "no stored credentials", NoManager)
        ELSE IF ~Truthy(client_secret)
        THEN Exit(kr, 0, "stdout", "missing client secret", NoManager)
        ELSE LET client == client_of(creds.dict, environ)
                 call == _refresh_access_token(client, Parsed(resp), t)
             IN
             IF client.raised # None
             THEN Exit(kr, 0, "stdout", "token refresh failed", client)
             ELSE IF call.raised # None
             THEN Exit(kr, 0, "stdout", "token refresh failed", call.self)
             ELSE Exit(kr, 0, "stdout", None, call.self)

\* faulty variant: refresh saves the new access token in the stored record
run_refresh_write_back(kr, environ, resp, fails, t) ==
    LET creds == get_credentials(kr, fails).ret
        client_secret == environ_get(environ, "EBAY_CLIENT_SECRET", "")
    IN  IF ~HasCreds(creds)
        THEN Exit(kr, 1, "stderr", "no stored credentials", NoManager)
        ELSE IF ~Truthy(client_secret)
        THEN Exit(kr, 1, "stderr", "missing client secret", NoManager)
        ELSE LET client == client_of(creds.dict, environ)
                 cleared == [client EXCEPT !._access_token = None, !._token_expiry = 0]
                 call == _refresh_access_token(cleared, Parsed(resp), t)
                 saved == store_credentials(kr,
                              [k \in DOMAIN creds.dict \cup {"access_token"} |->
                                  IF k = "access_token" THEN call.ret ELSE creds.dict[k]],
                              FALSE)
             IN
             IF client.raised # None
             THEN Exit(kr, 1, "stderr", "token refresh failed", client)
             ELSE IF call.raised # None
             THEN Exit(kr, 1, "stderr", "token refresh failed", call.self)
             ELSE Exit(saved.keyring, 0, "stdout", None, call.self)

\* refresh
run_refresh(kr, environ, resp, fails, t) ==
    LET creds == get_credentials(kr, fails).ret
        client_secret == environ_get(environ, "EBAY_CLIENT_SECRET", "")
    IN  IF ~HasCreds(creds)
        THEN Exit(kr, 1, "stderr", "no stored credentials", NoManager)
        ELSE IF ~Truthy(client_secret)
        THEN Exit(kr, 1, "stderr", "missing client secret", NoManager)
        ELSE LET client == client_of(creds.dict, environ)
                 cleared == [client EXCEPT !._access_token = None, !._token_expiry = 0]
                 call == _refresh_access_token(cleared, Parsed(resp), t)
             IN
             IF client.raised # None
             THEN Exit(kr, 1, "stderr", "token refresh failed", client)
             ELSE IF call.raised # None
             THEN Exit(kr, 1, "stderr", "token refresh failed", call.self)
             ELSE Exit(kr, 0, "stdout", None, call.self)

\* logout
run_logout(kr, fails) ==
    Exit(delete_credentials(kr, fails).keyring, 0, "stdout", None, NoManager)

\* the record of a command: what it found in the environment and how it ended
Command(cmd, environ, res) ==
    [cmd |-> cmd, environ |-> environ, exit |-> res.exit, echoed |-> res.echoed,
     failure |-> res.failure]

setup ==
    \E environment \in DOMAIN ENVIRONMENTS, environ \in Environs,
       pasted \in PastedQueries, resp \in CodeResponses, fails \in BOOLEAN :
        LET res == run_setup(keyring, environment, environ, pasted, resp, fails) IN
        /\ keyring' = res.keyring
        /\ cli' = Command("setup", environ, res)
        /\ self' = res.client
        /\ UNCHANGED <<now, last, srvVars, out, thr>>

status ==
    \E environ \in Environs, resp \in RefreshResponses, fails \in BOOLEAN :
        LET res == run_status(keyring, environ, resp, fails, now) IN
        /\ keyring' = res.keyring
        /\ cli' = Command("status", environ, res)
        /\ self' = res.client
        /\ UNCHANGED <<now, last, srvVars, out, thr>>

refresh ==
    \E environ \in Environs, resp \in RefreshResponses, fails \in BOOLEAN :
        LET res == run_refresh(keyring, environ, resp, fails, now) IN
        /\ keyring' = res.keyring
        /\ cli' = Command("refresh", environ, res)
        /\ self' = res.client
        /\ UNCHANGED <<now, last, srvVars, out, thr>>

logout ==
    \E fails \in BOOLEAN :
        LET res == run_logout(keyring, fails) IN
        /\ keyring' = res.keyring
        /\ cli' = Command("logout", NoEnviron, res)
        /\ self' = res.client
        /\ UNCHANGED <<now, last, srvVars, out, thr>>

\* the first command on a machine whose keychain has no entry
CliInit ==
    /\ keyring = NoPassword
    /\ cli = [cmd |-> None, environ |-> NoEnviron, exit |-> 0, echoed |-> None,
              failure |-> None]
    /\ out = NoOut
    /\ thr = NoThreads
    /\ self = NoManager
    /\ now = 0
    /\ last = NoCall
    /\ SrvIdle

CliNext == setup \/ status \/ refresh \/ logout

CliSpec == CliInit /\ [][CliNext]_vars

(***************************************************************************)
(* auth.py, statement by statement: two threads call one EbayOAuthClient.   *)
(* A thread may be suspended between any two reads and writes of the        *)
(* attributes; pc names the line a thread is about to run.                  *)
(***************************************************************************)
Threads == {"t1", "t2"}

\* what the threads may find cached: nothing, or the token of an earlier exchange
EarlierCaches ==
    {[_access_token |-> None, _token_expiry |-> 0],
     [_access_token |-> "tok0", _token_expiry |-> SafetyMargin + 1],
     [_access_token |-> "tok0", _token_expiry |-> DefaultExpiresIn]}

\* the answers of the token endpoint to the threads
ThreadResponses ==
    {r \in Responses :
        /\ r.access_token # ""
        /\ r.expires_in \in {[kind |-> "absent", v |-> 0], [kind |-> "bad", v |-> 0],
                             [kind |-> "int", v |-> SafetyMargin + 1]}}

\* a thread that is about to call op
Thread(op) ==
    [op |-> op,
     pc |-> IF op = "force_refresh" THEN "96" ELSE "62",
     response |-> NoResponse,
     access_token |-> None,      \* the local variable of _refresh_access_token
     posts |-> 0,
     path |-> None,              \* "cache" or "refresh", the return statement taken
     ret |-> None,
     raised |-> None]

At(t, pc) == thr.thread[t].pc = pc

\* thread t moves on to pc
Goto(t, pc) == [thr EXCEPT !.thread[t].pc = pc]

\* thread t returns or raises
Done(t, path, ret, raised) ==
    [thr EXCEPT !.thread[t].pc = "done", !.thread[t].path = path,
                !.thread[t].ret = ret, !.thread[t].raised = raised]

\* line 62, left operand: `self._access_token and ...`
test_access_token(t) ==
    /\ At(t, "62")
    /\ thr' = Goto(t, IF Truthy(self._access_token) THEN "62b" ELSE "69")
    /\ UNCHANGED <<mgrVars, srvVars, stoVars, cli>>

\* line 62, right operand: `time.time() < (self._token_expiry - 60)`
test_token_expiry(t) ==
    /\ At(t, "62b")
    /\ thr' = Goto(t, IF now < self._token_expiry - SafetyMargin THEN "63" ELSE "69")
    /\ UNCHANGED <<mgrVars, srvVars, stoVars, cli>>

\* line 63: `return self._access_token`
return_access_token(t) ==
    /\ At(t, "63")
    /\ thr' = Done(t, "cache", self._access_token, None)
    /\ UNCHANGED <<mgrVars, srvVars, stoVars, cli>>

\* lines 69-86: the POST, raise_for_status, and the test of access_token
post(t) ==
    /\ At(t, "69")
    /\ \E resp \in ThreadResponses :
        LET data == Parsed(resp)
            posted == [thr EXCEPT !.thread[t].posts = @ + 1,
                                  !.thread[t].response = resp]
        IN  thr' = IF ~is_success(resp.status)
                   THEN [posted EXCEPT !.thread[t].pc = "done",
                                       !.thread[t].raised = "HTTPStatusError"]
                   ELSE IF ~Truthy(data.access_token)
                   THEN [posted EXCEPT !.thread[t].pc = "done",
                                       !.thread[t].raised = "RuntimeError"]
                   ELSE [posted EXCEPT !.thread[t].pc = "88",
                                       !.thread[t].access_token = data.access_token]
    /\ UNCHANGED <<mgrVars, srvVars, stoVars, cli>>

\* line 88: `self._access_token = access_token`
set_access_token(t) ==
    /\ At(t, "88")
    /\ self' = [self EXCEPT !._access_token = thr.thread[t].access_token]
    /\ thr' = [Goto(t, "89") EXCEPT !.token_from = t]
    /\ UNCHANGED <<now, last, srvVars, stoVars, cli>>

\* lines 89-92: `self._token_expiry = time.time() + int(expires_in)` and the
\* return of the local access_token, or the error of int()
set_token_expiry(t) ==
    /\ At(t, "89")
    /\ LET expires_in == thr.thread[t].response.expires_in IN
       IF expires_in.kind = "bad"
       THEN /\ thr' = Done(t, None, None, "ValueError")
            /\ UNCHANGED self
       ELSE /\ self' = [self EXCEPT !._token_expiry = now +
                            (IF expires_in.kind = "absent" THEN DefaultExpiresIn
                             ELSE expires_in.v)]
            /\ thr' = [Done(t, "refresh", thr.thread[t].access_token, None)
                            EXCEPT !.expiry_from = t]
    /\ UNCHANGED <<now, last, srvVars, stoVars, cli>>

\* line 96: `self._access_token = None`
clear_access_token(t) ==
    /\ At(t, "96")
    /\ self' = [self EXCEPT !._access_token = None]
    /\ thr' = [Goto(t, "97") EXCEPT !.token_from = "none"]
    /\ UNCHANGED <<now, last, srvVars, stoVars, cli>>

\* line 97: `self._token_expiry = 0`
clear_token_expiry(t) ==
    /\ At(t, "97")
    /\ self' = [self EXCEPT !._token_expiry = 0]
    /\ thr' = [Goto(t, "69") EXCEPT !.expiry_from = "none"]
    /\ UNCHANGED <<now, last, srvVars, stoVars, cli>>

\* the clock moves on while the threads run
ThreadTick ==
    /\ now < MaxNow
    /\ now' = now + 1
    /\ UNCHANGED <<self, last, srvVars, stoVars, cli, thr>>

\* one manager, its cache empty or filled by an earlier exchange; thread t1 is
\* about to call get_access_token, thread t2 get_access_token or force_refresh
ThreadInit ==
    /\ \E cache \in EarlierCaches :
        /\ self = [__init__(<<97>>, <<97>>, "rt1", "sandbox") EXCEPT
                        !._access_token = cache._access_token,
                        !._token_expiry = cache._token_expiry]
        /\ \E op2 \in {"get_access_token", "force_refresh"} :
            thr = [thread |-> [t \in Threads |->
                                IF t = "t1" THEN Thread("get_access_token")
                                ELSE Thread(op2)],
                   token_from |-> IF cache._access_token = None THEN "none"
                                  ELSE "earlier",
                   expiry_from |-> IF cache._access_token = None THEN "none"
                                   ELSE "earlier"]
    /\ now = 0
    /\ last = NoCall
    /\ SrvIdle
    /\ StoIdle

ThreadNext ==
    \/ \E t \in Threads :
        \/ test_access_token(t)
        \/ test_token_expiry(t)
        \/ return_access_token(t)
        \/ post(t)
        \/ set_access_token(t)
        \/ set_token_expiry(t)
        \/ clear_access_token(t)
        \/ clear_token_expiry(t)
    \/ ThreadTick

ThreadSpec == ThreadInit /\ [][ThreadNext]_vars

(***************************************************************************)
(* Properties of the manager.                                              *)
(***************************************************************************)
Returned == last.op \in {"get_access_token", "force_refresh"} /\ last.raised = None

\* the seconds a response's expires_in stands for
Seconds(expires_in) == IF expires_in.kind = "absent" THEN DefaultExpiresIn ELSE expires_in.v

\* the exchange of a response fails: refused, no usable token, or no usable expires_in
ExchangeFailed(resp) ==
    \/ ~is_success(resp.status)
    \/ ~Truthy(Parsed(resp).access_token)
    \/ resp.expires_in.kind = "bad"

\* a step that is a call of get_access_token: every call writes its record to
\* last, and a call that leaves last as it was leaves every variable as it was
GetStep == last' # last /\ last'.op = "get_access_token"

\* the steps GetStep names are the calls of get_access_token, and no others
GetStepsAreCalls ==
    [][/\ get_access_token => (GetStep \/ UNCHANGED vars)
       /\ GetStep => get_access_token]_vars

\* C1: whenever a call returns a token, cached_expiry minus the time of the
\* return is at least the safety margin of 60 seconds, whatever expires_in the
\* endpoint sent and on both return paths.
C1_SafetyMarginOnReturn ==
    Returned => self._token_expiry - last.t_ret >= SafetyMargin

\* C2, as stated: with a cached token and cached_expiry - now >= 60 (the
\* boundary 60 included) get_access_token returns the cached token, makes no
\* network call and leaves the cache unchanged.
C2_CacheHitFrom60 ==
    [][(GetStep /\ Truthy(self._access_token)
            /\ self._token_expiry - now >= SafetyMargin)
        => (/\ last'.raised = None
            /\ last'.ret = self._access_token
            /\ last'.posts = 0
            /\ self' = self)]_vars

\* C2, amended: with a cached token and cached_expiry - now > 60 (strictly)
\* get_access_token returns the cached token, makes no network call and leaves
\* the cache unchanged; so repeated calls on a warm cache return the same token.
C2_CacheHitAbove60 ==
    [][(GetStep /\ Truthy(self._access_token)
            /\ self._token_expiry - now > SafetyMargin)
        => (/\ last'.raised = None
            /\ last'.ret = self._access_token
            /\ last'.posts = 0
            /\ self' = self)]_vars

\* a get_access_token call has just been served from the cache
C2_Witness ==
    /\ last.op = "get_access_token"
    /\ last.warm
    /\ last.posts = 0
    /\ last.ret = self._access_token
    /\ last.ret \in AccessTokens

\* C3: when no token is cached, or now >= cached_expiry - 60, get_access_token
\* makes exactly one refresh exchange and, if it returns, returns the token of
\* that exchange.
C3_CacheMiss ==
    [][(GetStep
            /\ (self._access_token = None \/ now >= self._token_expiry - SafetyMargin))
        => (/\ last'.posts = 1
            /\ last'.raised = None =>
                    /\ last'.ret = last'.response.access_token
                    /\ last'.ret \in AccessTokens)]_vars

\* a get_access_token call found a token cached that was no longer valid,
\* refreshed, and returned the token of the exchange
C3_Witness ==
    /\ last.op = "get_access_token"
    /\ ~last.warm
    /\ last.posts = 1
    /\ last.raised = None
    /\ last.ret = last.response.access_token

\* C4: force_refresh makes exactly one exchange whatever the cache holds, and
\* when it returns, it returns the new token, which is the cached token, and
\* cached_expiry is the expiry of that same exchange.
C4_ForceRefresh ==
    last.op = "force_refresh" =>
        /\ last.posts = 1
        /\ last.raised = None =>
            /\ last.ret = last.response.access_token
            /\ last.ret \in AccessTokens
            /\ self._access_token = last.ret
            /\ self._token_expiry = last.t_ret + Seconds(last.response.expires_in)

\* force_refresh was called on a warm cache and returned
C4_Witness ==
    /\ last.op = "force_refresh"
    /\ last.warm
    /\ last.raised = None

\* C5: when the exchange of get_access_token is refused (non-2xx) or its 2xx
\* body lacks access_token, the call raises and the cached token and expiry
\* are what they were before the call.
C5_FailedLazyRefresh ==
    [][(GetStep /\ last'.posts = 1
            /\ (~is_success(last'.response.status)
                    \/ last'.response.access_token = Absent))
        => (/\ last'.raised =
                    (IF is_success(last'.response.status)
                     THEN "RuntimeError" ELSE "HTTPStatusError")
            /\ last'.ret = None
            /\ self'._access_token = self._access_token
            /\ self'._token_expiry = self._token_expiry)]_vars

\* a get_access_token call failed on a 2xx body without access_token while a
\* token was cached
C5_Witness ==
    /\ last.op = "get_access_token"
    /\ last.raised = "RuntimeError"
    /\ last.response.access_token = Absent
    /\ self._access_token \in AccessTokens

\* C6: when the exchange of a call fails, the call ends in an error after
\* exactly one network attempt and returns no token, cached or other.
C6_NoSwallowNoRetry ==
    (last.op \in {"get_access_token", "force_refresh"} /\ last.posts >= 1
        /\ ExchangeFailed(last.response))
    => (/\ last.raised # None
        /\ last.ret = None
        /\ last.posts = 1)

\* a call was refused by the endpoint while a token was cached
C6_Witness ==
    /\ last.op = "get_access_token"
    /\ ~is_success(last.response.status)
    /\ last.posts = 1
    /\ self._access_token \in AccessTokens

\* C7: construction with "sandbox" or "production" gives a manager with that
\* environment's token endpoint and API base and an empty cache; with any
\* other name it fails at once, before any call and without a network call.
C7_EagerConfiguration ==
    /\ self.environment = "sandbox" =>
        /\ self.raised = None
        /\ self.token_url = "https://api.sandbox.ebay.com/identity/v1/oauth2/token"
        /\ self.api_base = "https://api.sandbox.ebay.com"
    /\ self.environment = "production" =>
        /\ self.raised = None
        /\ self.token_url = "https://api.ebay.com/identity/v1/oauth2/token"
        /\ self.api_base = "https://api.ebay.com"
    /\ (self.raised = None /\ last.op = "__init__") =>
        /\ self._access_token = None
        /\ self._token_expiry = 0
    /\ self.environment \notin {"sandbox", "production"} =>
        /\ self.raised = "ValueError"
        /\ last.op = "__init__"
        /\ last.posts = 0

\* a construction with an unknown environment name has failed
C7_Witness ==
    /\ self.environment = "invalid"
    /\ self.raised = "ValueError"

\* C8: every refresh request goes to the token endpoint of the environment
\* given at construction, with grant_type=refresh_token, the refresh token
\* given at construction, and an Authorization header "Basic " + base64 text
\* that decodes to client_id ":" client_secret.
C8_RefreshRequest ==
    last.posts >= 1 =>
        LET authorization == last.request.authorization IN
        /\ self.environment \in DOMAIN ENVIRONMENTS
        /\ last.request.url = ENVIRONMENTS[self.environment].token_url
        /\ last.request.grant_type = "refresh_token"
        /\ last.request.refresh_token = self.refresh_token
        /\ Len(authorization) >= Len(Basic_)
        /\ SubSeq(authorization, 1, Len(Basic_)) = Basic_
        /\ decode(b64decode(SubSeq(authorization, Len(Basic_) + 1, Len(authorization))))
                = self.client_id \o Colon \o self.client_secret

\* a request was sent for credentials whose UTF-8 form is not a multiple of
\* three bytes, so the base64 text ends in padding
C8_Witness ==
    /\ last.posts = 1
    /\ last.op = "force_refresh"
    /\ self.client_id # <<>>
    /\ self.client_id # self.client_secret
    /\ last.request.authorization[Len(last.request.authorization)] = 61

(***************************************************************************)
(* Properties of the callback listener.                                    *)
(***************************************************************************)
Consumed == seen.consumed.path = "/callback"
Finished == wait.pc = "done"
GaveBundle == Finished /\ wait.raised = None

Interrupted == wait.raised = "KeyboardInterrupt"

\* C10: once started the wait ends, with a bundle, a CallbackError or a
\* TimeoutError, and with TimeoutError when no /callback request has arrived
\* (a wait that is broken off from outside is left aside).
C10_TimeoutLiveness ==
    /\ (wait.pc = "loop") ~> Finished
    /\ []((Finished /\ ~Interrupted) =>
            /\ wait.raised \in {None, "RuntimeError", "TimeoutError"}
            /\ wait.raised = None => wait.ret # NoBundle
            /\ ~seen.callback_arrived => wait.raised = "TimeoutError")

\* C11: on every exit path of the callback wait (bundle returned, callback
\* error, timeout, exception out of handle_request) the listening socket is
\* closed when control is back with the caller; before the wait starts and
\* while it runs the socket is bound, and a start that found no port holds none.
C11_SocketReleasedOnExit ==
    /\ Finished => server.socket = "closed"
    /\ server.raised # None => server.socket = "none"
    /\ (server.raised = None /\ ~Finished) => server.socket = "bound"

\* the wait was left by an exception out of handle_request, and the socket is
\* closed
C11_Witness ==
    /\ Finished
    /\ Interrupted
    /\ server.socket = "closed"

(***************************************************************************)
(* Properties of the credential store.                                     *)
(***************************************************************************)
\* C12: a get_credentials after a store_credentials(r) that no store or
\* delete has followed returns a record equal to r, and with no record stored
\* (never stored, or deleted) it returns None.
C12_RoundTrip ==
    out.op = "get_credentials" =>
        /\ out.raised = None
        /\ out.ret = out.held

\* the round trip of the calls in which the keyring backend answered
RoundTripBackendAnswers ==
    (out.op = "get_credentials" /\ ~out.fails) =>
        /\ out.raised = None
        /\ out.ret = out.held

Deleted == out.op = "delete_credentials"

\* what C13 says of every single delete_credentials: it never raises, returns
\* True when the keyring deleted the entry, which is then gone, and False when
\* the deletion failed (no entry, or the backend failed), which changes nothing
DeleteReports ==
    Deleted =>
        /\ out.raised = None
        /\ out.ret = RetBool(out.had /\ ~out.fails)
        /\ out.ret.bool => ~keyring.present
        /\ ~out.ret.bool => keyring.present = out.had

\* C13, as stated: delete_credentials reports as above, and of two calls in a
\* row the second returns False and the store is left empty.
C13_SecondDeleteFalse ==
    /\ DeleteReports
    /\ (Deleted /\ out.prev.op = "delete_credentials")
        => (out.ret = RetBool(FALSE) /\ ~keyring.present)

\* C13, amended: delete_credentials reports as above, and a call that follows
\* a delete that returned True, or that finds no entry, returns False and
\* leaves the store empty.
C13_DeleteAfterDeleted ==
    /\ DeleteReports
    /\ (Deleted /\ ((out.prev.op = "delete_credentials" /\ out.prev.ret.bool)
                        \/ ~out.had))
        => (out.ret = RetBool(FALSE) /\ out.raised = None /\ ~keyring.present)

\* a delete has followed a delete that had removed a stored record
C13_Witness ==
    /\ Deleted
    /\ out.prev.op = "delete_credentials"
    /\ out.prev.ret = RetBool(TRUE)
    /\ out.ret = RetBool(FALSE)
    /\ ~keyring.present

(***************************************************************************)
(* Properties of the commands.                                             *)
(***************************************************************************)
\* the values of the client secret and of the RuName that a command may find
\* in its environment
SecretValues ==
    ({e.EBAY_CLIENT_SECRET : e \in Environs} \cup {e.EBAY_RUNAME : e \in Environs})
        \ {Absent, ""}

\* the dict that the keychain entry holds
StoredRecord == json_loads(keyring.password).value.dict

\* C14: after any sequence of setup, status, refresh and logout the keychain
\* holds no entry, or a record of exactly refresh_token, access_token,
\* environment and client_id, none of which is the client secret or the RuName.
C14_SecretNeverStored ==
    keyring.present =>
        /\ json_loads(keyring.password).raised = None
        /\ json_loads(keyring.password).value.kind = "dict"
        /\ DOMAIN StoredRecord
                = {"refresh_token", "access_token", "environment", "client_id"}
        /\ \A k \in DOMAIN StoredRecord : StoredRecord[k] \notin SecretValues

\* a setup that found the secret and the RuName in its environment has stored
\* its record, and a later status has read it
C14_Witness ==
    /\ keyring.present
    /\ StoredRecord.client_id = "id1"
    /\ StoredRecord.refresh_token = "rt1"
    /\ cli.cmd = "status"
    /\ cli.environ.EBAY_CLIENT_SECRET = "sec1"
    /\ cli.failure = None

\* C15: every failure of setup, status and refresh (missing client id or
\* secret, no code, failed exchange; no stored credentials, missing secret,
\* failed refresh) prints a diagnostic and exits with a non-zero status.
C15_FailuresExitNonZero ==
    (cli.cmd \in {"setup", "status", "refresh"} /\ cli.failure # None) =>
        /\ cli.echoed # None
        /\ cli.exit # 0

\* the same for setup and refresh, and for status with no stored credentials
FailuresExitNonZeroButStatus ==
    (cli.cmd \in {"setup", "status", "refresh"} /\ cli.failure # None
        /\ ~(cli.cmd = "status"
                /\ cli.failure \in {"missing client secret", "token refresh failed"}))
    => (cli.echoed # None /\ cli.exit # 0)

(***************************************************************************)
(* Properties of the manager's cache.                                      *)
(***************************************************************************)
\* a step that is a call on the manager
CallStep == last' # last /\ last'.op \in {"get_access_token", "force_refresh"}

\* C16: a call whose exchange fails, a force_refresh included, leaves
\* cached_access_token and cached_expiry as they were before the call; the
\* pair changes only with a successful exchange.
C16_CacheChangesOnlyOnSuccess ==
    [][/\ (CallStep /\ last'.posts = 1 /\ last'.raised # None)
            => (/\ self'._access_token = self._access_token
                /\ self'._token_expiry = self._token_expiry)
       /\ (self'._access_token # self._access_token
                \/ self'._token_expiry # self._token_expiry)
            => (CallStep /\ last'.posts = 1 /\ last'.raised = None)]_vars

\* the same for the failures on which nothing has been written yet: a
\* get_access_token whose exchange is refused or lacks access_token
CacheKeptOnEarlyFailure ==
    [][(CallStep /\ last'.op = "get_access_token" /\ last'.posts = 1
            /\ last'.raised \in {"HTTPStatusError", "RuntimeError"})
        => (/\ self'._access_token = self._access_token
            /\ self'._token_expiry = self._token_expiry)]_vars

\* C17: the cache is replaced as a whole: every call leaves the pair as it
\* was, or empties it, or sets the token and the expiry of one and the same
\* response, so that a cached token never stands with the expiry of another
\* exchange or with none, also when expires_in is no integer.
C17_TokenExpiryPaired ==
    [][CallStep =>
        \/ /\ self'._access_token = self._access_token
           /\ self'._token_expiry = self._token_expiry
        \/ /\ self'._access_token = None
           /\ self'._token_expiry = 0
        \/ /\ self'._access_token = last'.response.access_token
           /\ last'.response.expires_in.kind # "bad"
           /\ self'._token_expiry = last'.t_ret + Seconds(last'.response.expires_in)]_vars

\* the pairing for the calls that do not raise on expires_in
TokenExpiryPairedButBadExpiresIn ==
    [][(CallStep /\ last'.raised # "ValueError") =>
        \/ /\ self'._access_token = self._access_token
           /\ self'._token_expiry = self._token_expiry
        \/ /\ self'._access_token = None
           /\ self'._token_expiry = 0
        \/ /\ self'._access_token = last'.response.access_token
           /\ last'.response.expires_in.kind # "bad"
           /\ self'._token_expiry = last'.t_ret + Seconds(last'.response.expires_in)]_vars

\* C18: after a successful exchange the cached token is the access_token of
\* the response and cached_expiry is the time read once the response is there
\* plus expires_in, 7200 when the response has none, and the value as sent
\* otherwise, be it zero or negative; a 2xx response with a token and a
\* convertible expires_in is a successful exchange.
C18_ExpiryAsSent ==
    (last.op \in {"get_access_token", "force_refresh"} /\ last.posts = 1) =>
        /\ ~ExchangeFailed(last.response) => last.raised = None
        /\ last.raised = None =>
            /\ self._access_token = last.response.access_token
            /\ self._token_expiry =
                    last.t_ret + (IF last.response.expires_in.kind = "absent"
                                  THEN 7200 ELSE last.response.expires_in.v)

\* a get_access_token has cached a token that came with a negative expires_in
\* after the clock had moved
C18_Witness ==
    /\ last.op = "get_access_token"
    /\ last.posts = 1
    /\ last.raised = None
    /\ last.response.expires_in = [kind |-> "int", v |-> -1]
    /\ last.t_ret > 0
    /\ self._token_expiry = last.t_ret - 1

(***************************************************************************)
(* Properties of the manager under two threads.                            *)
(***************************************************************************)
AllDone == \A t \in Threads : At(t, "done")
BothGet == \A t \in Threads : thr.thread[t].op = "get_access_token"

\* C19: when two threads call get_access_token, each may make its own
\* exchange, and still every call that returns gives the token of its own
\* exchange or a token that was in the cache, and once both calls have
\* finished (here: neither on an expires_in that is no integer) the cached
\* token and the cached expiry come from one and the same exchange.
C19_DuplicatesDoNotCorrupt ==
    BothGet =>
        /\ \A t \in Threads :
            (At(t, "done") /\ thr.thread[t].raised = None) =>
                /\ thr.thread[t].posts <= 1
                /\ thr.thread[t].path = "refresh" =>
                        thr.thread[t].ret = thr.thread[t].response.access_token
                /\ thr.thread[t].path = "cache" =>
                        thr.thread[t].ret \in {"tok0"} \cup AccessTokens
        /\ (AllDone /\ \A t \in Threads : thr.thread[t].raised # "ValueError") =>
                thr.token_from = thr.expiry_from

\* the first half of C19 alone: what each call returns
ReturnsOwnOrCached ==
    BothGet =>
        \A t \in Threads :
            (At(t, "done") /\ thr.thread[t].raised = None) =>
                /\ thr.thread[t].posts <= 1
                /\ thr.thread[t].path = "refresh" =>
                        thr.thread[t].ret = thr.thread[t].response.access_token
                /\ thr.thread[t].path = "cache" =>
                        thr.thread[t].ret \in {"tok0"} \cup AccessTokens

\* C20: every get_access_token that returns gives a non-empty token and never
\* None, whatever a force_refresh in another thread does meanwhile.
C20_NeverReturnsNone ==
    \A t \in Threads :
        (thr.thread[t].op = "get_access_token" /\ At(t, "done")
            /\ thr.thread[t].raised = None)
        => (thr.thread[t].ret # None /\ thr.thread[t].ret # "")

\* the same when both threads call get_access_token
NeverReturnsNoneWithoutForceRefresh == BothGet => C20_NeverReturnsNone

(***************************************************************************)
(* Properties of the listener's single callback.                           *)
(***************************************************************************)
\* C21: one callback is consumed per listener: a request to another path is
\* answered 404 and does not end the wait; the first /callback request,
\* valid or not, ends it (callback_done is set by the time it has been
\* handled); no request is handled after a /callback request; and a wait
\* that ends on a callback has exactly one of the bundle and the callback
\* error.
C21_OneCallbackConsumed ==
    /\ (seen.path \notin {None, "/callback"} /\ seen.status # 0) => seen.status = 404
    /\ ~seen.callback_arrived => ~server.callback_done
    /\ seen.callback_arrived => server.callback_done
    /\ ~seen.later
    /\ server.callback_done =>
            (server.callback_result # NoBundle) # (server.callback_error # None)
    /\ (Finished /\ server.callback_done) =>
            /\ wait.raised \in {None, "RuntimeError"}
            /\ wait.raised = None <=> server.callback_error = None
            /\ wait.raised = None => wait.ret = server.callback_result

(***************************************************************************)
(* Properties of the credential store's failures.                          *)
(***************************************************************************)
\* the entry holds a password that json.loads rejects
Unreadable ==
    /\ keyring.present
    /\ keyring.password # <<>>
    /\ json_loads(keyring.password).raised # None

\* C22: only delete_credentials turns a failure into a value: it returns
\* False when the backend fails, while a store_credentials or get_credentials
\* that meets a failing backend, or a get_credentials that meets an
\* unreadable entry, ends in an error and returns nothing.
C22_OnlyDeleteSwallows ==
    /\ (Deleted /\ out.fails) => (out.raised = None /\ out.ret = RetBool(FALSE))
    /\ (out.op \in {"store_credentials", "get_credentials"} /\ out.fails)
            => out.raised # None
    /\ (out.op = "get_credentials" /\ Unreadable) => out.raised # None

\* the part of C22 on store_credentials and delete_credentials: a store that
\* meets a failing backend raises and leaves the entry as it was
StoreFailurePropagates ==
    /\ (Deleted /\ out.fails) => (out.raised = None /\ out.ret = RetBool(FALSE))
    /\ (out.op = "store_credentials" /\ out.fails) =>
            /\ out.raised = "KeyringError"
            /\ keyring.present = out.had
    /\ out.op = "get_credentials" => (out.raised = None /\ out.ret.kind # "bool")

(***************************************************************************)
(* Properties of what the core and the commands write.                     *)
(***************************************************************************)
\* the attributes that the constructor sets from its arguments
SameArguments(a, b) ==
    /\ a.client_id = b.client_id
    /\ a.client_secret = b.client_secret
    /\ a.refresh_token = b.refresh_token
    /\ a.environment = b.environment

\* C23: a status or a refresh command leaves the keychain entry exactly as it
\* found it, whether the token request succeeds or fails; the new access
\* token is held by the EbayOAuthClient of the command only, and that
\* client's client_id, client_secret, refresh_token and environment are still
\* the ones it was constructed with when the command ends.
C23_NoWriteBack ==
    [][cli'.cmd \in {"status", "refresh"} =>
            /\ keyring' = keyring
            /\ self'.raised # "NoManager" =>
                    /\ keyring.present
                    /\ SameArguments(self', client_of(StoredRecord, cli'.environ))
            /\ (self'.raised = None /\ cli'.failure = None) =>
                    self'._access_token \notin {None, Absent}]_vars

\* a refresh command has obtained a new access token, which its client
\* holds, while the stored record still has the access token of setup
C23_Witness ==
    /\ cli.cmd = "refresh"
    /\ cli.exit = 0
    /\ self.raised = None
    /\ self._access_token = "tokA"
    /\ keyring.present
    /\ StoredRecord.access_token = "at1"
    /\ self.refresh_token = StoredRecord.refresh_token

\* the part of C23 on one EbayOAuthClient over any sequence of calls of
\* get_access_token and force_refresh: no call changes the constructor's
\* arguments, the endpoints, or the keychain
ManagerArgumentsFixed ==
    [][/\ SameArguments(self', self)
       /\ self'.token_url = self.token_url
       /\ self'.api_base = self.api_base
       /\ keyring' = keyring]_vars

\* the keychain entries that a successful setup leaves, whatever it found
\* there: the record made from the --environment option, EBAY_CLIENT_ID and
\* a successful code exchange that returned a refresh token
SetupRecords(environ) ==
    {store_credentials(NoPassword, setup_credentials(resp, environment, environ),
                       FALSE).keyring :
        environment \in DOMAIN ENVIRONMENTS,
        resp \in {r \in CodeResponses :
                    is_success(r.status) /\ r.refresh_token # Absent}}

\* C24: the keychain entry gets a new content only from a setup that ended
\* without failure, and then it is the record of that setup alone, made from
\* a successful code exchange that returned a refresh token; a setup that
\* failed leaves the entry as it found it; an entry disappears only by logout.
C24_SetupWritesOnSuccessOnly ==
    [][/\ (keyring' # keyring /\ keyring'.present) =>
                (cli'.cmd = "setup" /\ cli'.failure = None)
       /\ (cli'.cmd = "setup" /\ cli'.failure = None) =>
                keyring' \in SetupRecords(cli'.environ)
       /\ (cli'.cmd = "setup" /\ cli'.failure # None) => keyring' = keyring
       /\ (keyring.present /\ ~keyring'.present) => cli'.cmd = "logout"]_vars

\* a setup whose code exchange answered without refresh_token has ended in a
\* KeyError, and the record of an earlier setup is still in the keychain
C24_Witness ==
    /\ cli.cmd = "setup"
    /\ cli.failure = "KeyError"
    /\ keyring.present
    /\ StoredRecord.refresh_token = "rt1"

====
